---- MODULE Spec2Model ----
(***************************************************************************)
(* State-machine model of the db_manager ingestion pipeline:               *)
(*   src/database/db_writer.py   filter_dataframe, DataFrameChunkWriter,   *)
(*                               DataExtractor, sort_table_on_time         *)
(*   src/database/db_creator.py  DBCreator                                 *)
(*   src/database/db_connector.py DBConnector.execute_query                *)
(*   src/main.py                 mainRunningCallBack                       *)
(*                                                                         *)
(* Processes: the coordinating process (mainRunningCallBack calling        *)
(* DataExtractor.run and then sort_table_on_time), one writer process      *)
(* (write_to_db) and one producer process per entry of csv_files           *)
(* (process_file).  They share one multiprocessing.Queue and one sqlite    *)
(* store.                                                                  *)
(*                                                                         *)
(* Spec is the pipeline.  AlignSpec is one call of filter_dataframe on     *)
(* arguments drawn from bounded sets, with the pipeline idle.              *)
(*                                                                         *)
(* Time stamps are integers.  Bad is a cell that does not parse as a time, *)
(* NaT is what pd.to_datetime(errors='coerce') turns such a cell into.     *)
(***************************************************************************)
EXTENDS Integers, Sequences, FiniteSets, TLC

\* ------------------------------------------------------------------ bounds

\* Largest number of chunks pd.read_csv yields for one file.
MaxChunks == 2

\* Largest number of rows of the reference series and of the chunk handed to
\* filter_dataframe on its own, and the largest reference time stamp.
MaxRefs == 2
MaxRows == 2
MaxTime == 6

\* ------------------------------------------------------- program constants

\* db_writer.py:101  retry_count = 5
RetryCount == 5
\* db_writer.py:109  time.sleep(1)
SleepSeconds == 1
\* db_writer.py:27   minutes = 1 (half width of the window)
Minutes == 1

\* db_writer.py:164  Queue(): maxsize defaults to 0, which means no limit
QueueMaxsize == 0

Bad == -1
NaT == 0

\* data_models/model.py:5 and db_writer.py:32
TimeColumn == "Gmt time"
ReleaseColumn == "RELEASE_TIME"
\* db_writer.py:186
DefaultTable == "data_table"

\* ------------------------------------------------------------------ inputs

\* A path is <<directory, stem, extension>>; os.path.join(directory, name)
\* puts the directory in front of a directory entry's <<stem, extension>>.
Join(directory, name) == <<directory>> \o name

AskPath == <<"data", "ask", "csv">>
BasePath == <<"data", "base", "csv">>
TicksPath == <<"data", "ticks", "csv">>
PricesDir == "prices"
SymPath == Join(PricesDir, <<"sym", "csv">>)

Paths == {AskPath, BasePath, TicksPath, SymPath}

\* The time column a file's rows carry: price files have "Gmt time", interest
\* rate files have RELEASE_TIME, tick files have "time" (main.py:91), which
\* filter_dataframe does not recognise.
ColumnOf(path) ==
    IF path = BasePath THEN ReleaseColumn
    ELSE IF path = TicksPath THEN "time"
    ELSE TimeColumn

PathIndex(path) ==
    IF path = AskPath THEN 1
    ELSE IF path = BasePath THEN 2
    ELSE IF path = SymPath THEN 3
    ELSE 4

\* Number of chunks of a file that exists: the ask file is the long one.
NumChunks(path) ==
    IF path = AskPath THEN MaxChunks
    ELSE IF path = SymPath THEN 2
    ELSE 1

Row(time, key) == [time |-> time, key |-> key]

\* The k-th chunk pd.read_csv yields for a file: two rows with distinct
\* times, not sorted for the directory file, one unparseable for base.
RawChunk(path, k) ==
    LET f == PathIndex(path)
        key(i) == 100 * f + 10 * k + i
    IN  [columns |-> {ColumnOf(path), "value"},
         index |-> "RangeIndex",
         rows |-> IF path = AskPath THEN <<Row(k + 1, key(1)), Row(k + 3, key(2))>>
                  ELSE IF path = BasePath THEN <<Row(Bad, key(1)), Row(k + 3, key(2))>>
                  ELSE IF path = SymPath THEN <<Row(k + 5, key(1)), Row(k, key(2))>>
                  ELSE <<Row(k, key(1)), Row(k + 1, key(2))>>]

\* reference: load_data(reference_path) if reference_path else None
NoReference == [given |-> FALSE, times |-> <<>>]
ReferenceChoices == {NoReference, [given |-> TRUE, times |-> <<3>>]}

\* data_paths: an insertion-ordered dict, as a sequence of <<path, table>>.
DataPathsChoices ==
    { <<<<AskPath, "askPrices">>, <<BasePath, "baseInterests">>>>,
      <<<<AskPath, "askPrices">>, <<TicksPath, "ticks">>>>,
      <<<<SymPath, "bidPrices">>>> }

\* os.listdir(directory): entries with a name and whether it is a regular file.
Entry(stem, ext, isfile) == [name |-> <<stem, ext>>, isfile |-> isfile]
ListdirChoices ==
    { <<Entry("notes", "txt", TRUE)>>,
      <<Entry("old", "csv", FALSE), Entry("sym", "csv", TRUE)>> }

\* The sequences over S of length up to n.
SeqsUpTo(S, n) == UNION {[1..k -> S] : k \in 0..n}

\* The arguments of filter_dataframe called on its own: a reference series
\* and a chunk of a price file, in any row order, with cells that may not
\* parse.  Reference times start at 2 so that every window starts after NaT.
AlignReferences ==
    {[given |-> TRUE, times |-> ts] : ts \in SeqsUpTo(2..MaxTime, MaxRefs)}
AlignChunks ==
    {[columns |-> {TimeColumn, "value"},
      index |-> "RangeIndex",
      rows |-> [i \in DOMAIN ts |-> Row(ts[i], i)]] :
        ts \in SeqsUpTo({Bad} \cup 1..(MaxTime + 2), MaxRows)}

\* ----------------------------------------------------------- pure functions

\* DataFrame.sort_values(column), ascending, for rows s with keys key[i]; rows
\* with equal keys keep their order.  The row at position i goes to Rank(i).
SortValues(s, key) ==
    LET Rank(i) == 1 + Cardinality({j \in DOMAIN s :
                        \/ key[j] < key[i]
                        \/ key[j] = key[i] /\ j < i})
    IN  [r \in DOMAIN s |-> s[CHOOSE i \in DOMAIN s : Rank(i) = r]]

\* pd.to_datetime(..., errors='coerce') on one cell.
ToDatetime(cell) == IF cell = Bad THEN NaT ELSE cell

\* db_writer.py:42-43, 47: the reference rows with start_time and end_time,
\* sorted by start_time.
Windows(times) ==
    SortValues([i \in DOMAIN times |->
                   [start |-> times[i] - Minutes, end |-> times[i] + Minutes]],
               [i \in DOMAIN times |-> times[i] - Minutes])

\* pd.merge_asof matching the first window whose start_time is <= t instead
\* of the last.
AsofBackward_First(t, windows) ==
    LET ok == {i \in DOMAIN windows : windows[i].start <= t}
    IN  IF ok = {} THEN 0 ELSE CHOOSE i \in ok : \A j \in ok : i <= j

\* pd.merge_asof (direction backward): the index of the last window whose
\* start_time is <= t, 0 when there is none (the merged columns are NaN).
AsofBackward(t, windows) ==
    LET ok == {i \in DOMAIN windows : windows[i].start <= t}
    IN  IF ok = {} THEN 0 ELSE CHOOSE i \in ok : \A j \in ok : j <= i

\* db_writer.py:52-53 with strict comparisons.
InWindow_Exclusive(t, windows) ==
    LET i == AsofBackward(t, windows)
    IN  i # 0 /\ t > windows[i].start /\ t < windows[i].end

\* db_writer.py:52-53 on one merged row.
InWindow(t, windows) ==
    LET i == AsofBackward(t, windows)
    IN  i # 0 /\ t >= windows[i].start /\ t <= windows[i].end

\* filter_dataframe(reference_df, target_df): [raised, chunk].
\* raised is the exception that leaves the function ("" when it returns).
filter_dataframe(reference, chunk) ==
    IF ~reference.given
    THEN [raised |-> "TypeError", chunk |-> chunk]
    ELSE IF TimeColumn \in chunk.columns
    THEN LET parsed == [i \in DOMAIN chunk.rows |->
                           [chunk.rows[i] EXCEPT !.time = ToDatetime(@)]]
             notna(r) == r.time # NaT
             valid == SelectSeq(parsed, notna)
             sorted == SortValues(valid, [i \in DOMAIN valid |-> valid[i].time])
             windows == Windows(reference.times)
             keep(r) == InWindow(r.time, windows)
         IN  [raised |-> "",
              chunk |-> [chunk EXCEPT !.rows = SelectSeq(sorted, keep)]]
    ELSE IF ReleaseColumn \in chunk.columns
    THEN [raised |-> "", chunk |-> chunk]
    ELSE [raised |-> "ValueError", chunk |-> chunk]

\* DataFrameChunkWriter.format_time_column
format_time_column(chunk, column_name) ==
    IF column_name \in chunk.columns
    THEN [chunk EXCEPT !.rows = [i \in DOMAIN @ |-> [@[i] EXCEPT !.time = ToDatetime(@)]]]
    ELSE chunk

\* DataFrameChunkWriter._prepare_chunk_for_db: the chunk as it is afterwards.
prepare_chunk_for_db(chunk) ==
    IF TimeColumn \in chunk.columns
    THEN [format_time_column(chunk, TimeColumn) EXCEPT
             !.columns = @ \ {TimeColumn}, !.index = TimeColumn]
    ELSE IF ReleaseColumn \in chunk.columns
    THEN format_time_column(chunk, ReleaseColumn)
    ELSE chunk

\* DataExtractor.get_csv_files: dict.copy() and dict.update() on ordered dicts.
get_csv_files(data_paths, directory, listdir) ==
    LET isCsv(e) == e.isfile /\ e.name[2] = "csv"
        files == SelectSeq(listdir, isCsv)
        dynamic == [i \in DOMAIN files |-> <<Join(directory, files[i].name), DefaultTable>>]
        isDynamic(path) == \E j \in DOMAIN dynamic : dynamic[j][1] = path
        isMapped(path) == \E i \in DOMAIN data_paths : data_paths[i][1] = path
        kept == [i \in DOMAIN data_paths |->
                    IF isDynamic(data_paths[i][1])
                    THEN <<data_paths[i][1], DefaultTable>>
                    ELSE data_paths[i]]
        isNew(d) == ~isMapped(d[1])
    IN  kept \o SelectSeq(dynamic, isNew)

\* ------------------------------------------------------------ DBCreator

\* An identifier as the regular expression sees it: its text and the class of
\* each character ("alpha", "digit", "_", "newline", "other").
Ident(text, chars) == [text |-> text, chars |-> chars]

\* DBCreator.VALID_COLUMN_NAME.match(name): ^[a-zA-Z_][a-zA-Z0-9_]*$
\* ($ also matches before a newline that ends the string).
ValidName(name) ==
    LET n == Len(name.chars)
        body == IF n > 1 /\ name.chars[n] = "newline" THEN n - 1 ELSE n
    IN  /\ n >= 1
        /\ name.chars[1] \in {"alpha", "_"}
        /\ \A i \in 2..body : name.chars[i] \in {"alpha", "digit", "_"}
        /\ \A i \in (body + 1)..n : name.chars[i] = "newline"

ValidTypes == {"TEXT", "TIMESTAMP", "REAL", "INTEGER"}

\* str.upper() on the type names the declarations use.
Upper(type) ==
    IF type \in {"text", "Text"} THEN "TEXT"
    ELSE IF type = "timestamp" THEN "TIMESTAMP"
    ELSE IF type = "real" THEN "REAL"
    ELSE IF type = "integer" THEN "INTEGER"
    ELSE type

\* DBCreator.__init__ validating the table name only.
DBCreatorInit_TableOnly(declaration) ==
    IF ~declaration.given THEN "TypeError"
    ELSE IF ~ValidName(declaration.table_name) THEN "ValueError"
    ELSE ""

\* DBCreator.__init__: "" when the object is constructed, else the exception.
\* A declaration that is not given is the call DBCreator(self.name) of
\* db_writer.py:195, which passes neither table_name nor columns.
DBCreatorInit(declaration) ==
    IF ~declaration.given THEN "TypeError"
    ELSE IF ~ValidName(declaration.table_name) THEN "ValueError"
    ELSE IF \E i \in DOMAIN declaration.columns :
               \/ ~ValidName(declaration.columns[i][1])
               \/ Upper(declaration.columns[i][2]) \notin ValidTypes
    THEN "ValueError"
    ELSE ""

\* The names the message of that exception holds: the table name
\* (db_creator.py:39), the first offending column's name (db_creator.py:59),
\* or that column's name and type (db_creator.py:61).
DBCreatorNamed(declaration) ==
    IF ~declaration.given THEN {"__init__"}
    ELSE IF ~ValidName(declaration.table_name) THEN {declaration.table_name.text}
    ELSE LET bad == {i \in DOMAIN declaration.columns :
                        \/ ~ValidName(declaration.columns[i][1])
                        \/ Upper(declaration.columns[i][2]) \notin ValidTypes}
         IN  IF bad = {} THEN {}
             ELSE LET i == CHOOSE x \in bad : \A y \in bad : x <= y
                  IN  IF ~ValidName(declaration.columns[i][1])
                      THEN {declaration.columns[i][1].text}
                      ELSE {declaration.columns[i][1].text, declaration.columns[i][2]}

NoDeclaration == [given |-> FALSE, table_name |-> Ident("", <<>>), columns |-> <<>>]
AskDeclaration ==
    [given |-> TRUE,
     table_name |-> Ident("askPrices", <<"alpha", "alpha", "alpha">>),
     columns |-> << <<Ident("Gmt_time", <<"alpha", "_", "alpha">>), "TIMESTAMP">>,
                    <<Ident("value", <<"alpha">>), "real">> >>]
\* Declarations the validation has to reject: a table name starting with a
\* digit, a column name with a space in it, a column type that is not allowed.
BadTableDeclaration ==
    [AskDeclaration EXCEPT !.table_name = Ident("1bad", <<"digit", "alpha", "alpha">>)]
BadColumnDeclaration ==
    [AskDeclaration EXCEPT
        !.columns[1] = <<Ident("Gmt time", <<"alpha", "other", "alpha">>), "TIMESTAMP">>]
BadTypeDeclaration ==
    [AskDeclaration EXCEPT !.columns[2] = <<Ident("value", <<"alpha">>), "BLOB">>]
DeclarationChoices ==
    {NoDeclaration, AskDeclaration, BadTableDeclaration, BadColumnDeclaration,
     BadTypeDeclaration}

\* ---------------------------------------------------------------- the store

\* The store maps the name of each existing table to its rows in rowid order.
EmptyStore == [t \in {} |-> <<>>]

DropKey(f, k) == [x \in DOMAIN f \ {k} |-> f[x]]

\* CREATE TABLE IF NOT EXISTS name (...)
CreateIfAbsent(st, name) == IF name \in DOMAIN st THEN st ELSE st @@ (name :> <<>>)

\* DataFrame.to_sql(name, cnx, if_exists='append'): creates the table when it
\* is absent and inserts the rows after the ones it holds.
to_sql(st, name, chunk) ==
    IF name \in DOMAIN st
    THEN [st EXCEPT ![name] = @ \o chunk.rows]
    ELSE st @@ (name :> chunk.rows)

\* The statements of sort_table_on_time after query.format(*params): what each
\* does, its tables, and the number of "?" left in its text.  execute_query is
\* called with the text alone (db_writer.py:236), so no value is ever bound.
Queries(table_name) ==
    << [kind |-> "DELETE", table |-> table_name, qmarks |-> 1],
       [kind |-> "CREATE_CLEAN", table |-> table_name, qmarks |-> 1],
       [kind |-> "DROP", table |-> table_name, qmarks |-> 0],
       [kind |-> "RENAME_CLEAN", table |-> table_name, qmarks |-> 0],
       [kind |-> "CREATE_INDEX", table |-> table_name, qmarks |-> 1] >>

CleanName(table_name) == table_name \o "_clean"

\* DBConnector.execute_query(query) with params None: cursor.execute(query)
\* raises ProgrammingError when the text holds a "?", OperationalError when a
\* table is missing or the new name is taken; both are sqlite3.Error, logged and
\* swallowed, and the store is left as it was.
execute_query(st, q) ==
    IF q.qmarks # 0 THEN st
    ELSE IF q.kind = "DROP"
    THEN IF q.table \in DOMAIN st THEN DropKey(st, q.table) ELSE st
    ELSE IF q.kind = "RENAME_CLEAN"
    THEN IF CleanName(q.table) \in DOMAIN st /\ q.table \notin DOMAIN st
         THEN DropKey(st, CleanName(q.table)) @@ (q.table :> st[CleanName(q.table)])
         ELSE st
    ELSE st

RECURSIVE RunQueries(_, _)
RunQueries(st, qs) ==
    IF qs = <<>> THEN st ELSE RunQueries(execute_query(st, Head(qs)), Tail(qs))

\* sort_table_on_time(db_name, table_name, time_column_name): the store after.
sort_table_on_time(st, table_name) == RunQueries(st, Queries(table_name))

\* main.py:91-95
SortCalls == <<"ticks", "askPrices", "bidPrices", "baseInterests", "quoteInterests">>

\* -------------------------------------------------------------------- state

VARIABLES
    reference,      \* DataExtractor.reference (db_writer.py:168)
    csv_files,      \* DataExtractor.csv_files, <<path, table>> in dict order
    missing,        \* the paths of csv_files that are not on disk
    declaration,    \* the table declaration handed to DBCreator
    data_paths,     \* DataExtractor.data_paths
    listdir,        \* what os.listdir(directory) returns
    align_reference, \* filter_dataframe called on its own: reference_df
    align_chunk,    \* filter_dataframe called on its own: target_df
    align_result,   \* filter_dataframe called on its own: [raised, chunk]
    mainpc,         \* where the coordinating process is
    spawned,        \* producers started by the loop of db_writer.py:200-204
    joined,         \* producers joined by the loop of db_writer.py:206-207
    sortIdx,        \* next call of main.py:91-95
    writersStarted, \* processes started with target write_to_db
    ppc,            \* per producer: "unstarted", "running", "done", "crashed"
    pidx,           \* per producer: chunks read so far
    queue,          \* DataExtractor.queue, oldest item first
    wpc,            \* the writer: "unstarted", "connect", "get", "try", "done", "crashed"
    cur,            \* the writer's (chunk, table_name)
    retry_count,    \* the writer's retry_count
    attempts,       \* to_sql calls made for cur
    backoff,        \* seconds slept for cur
    store,          \* the sqlite database
    printed,        \* what the processes printed or logged, as <<text, subject>>
    pushed,         \* history: ids of the items put on the queue, in order
    popped,         \* history: ids of the items the writer got, in order
    appended,       \* history: ids of the chunks to_sql inserted
    dropped,        \* history: ids of the chunks given up after the retries
    created,        \* history: names of the tables created in the store
    compacted       \* history: tables sort_table_on_time was called for, in order

alignVars == <<align_reference, align_chunk, align_result>>
inputs == <<reference, csv_files, missing, declaration, data_paths, listdir, alignVars>>
mainVars == <<mainpc, spawned, joined, sortIdx, writersStarted>>
prodVars == <<ppc, pidx>>
writerVars == <<wpc, cur, retry_count, attempts, backoff>>
history == <<pushed, popped, appended, dropped, created, compacted>>
vars == <<inputs, mainVars, prodVars, queue, writerVars, store, printed, history>>

Producers == DOMAIN csv_files
PathOf(p) == csv_files[p][1]
TableOf(p) == csv_files[p][2]

EmptyChunk == [columns |-> {}, index |-> "RangeIndex", rows |-> <<>>]
Item(chunk, table, id) == [is_none |-> FALSE, chunk |-> chunk, table |-> table, id |-> id]
\* db_writer.py:209  (None, None)
Sentinel == [is_none |-> TRUE, chunk |-> EmptyChunk, table |-> "None", id |-> <<0, 0>>]
NoItem == [is_none |-> TRUE, chunk |-> EmptyChunk, table |-> "", id |-> <<0, 0>>]

Terminated(pc) == pc \in {"done", "crashed"}

\* multiprocessing.Queue.put blocks while a queue built with maxsize > 0 holds
\* maxsize items.
Full(q) == QueueMaxsize > 0 /\ Len(q) >= QueueMaxsize

\* filter_dataframe has not been called.
NoResult == [raised |-> "", chunk |-> EmptyChunk, called |-> FALSE]

\* DataExtractor.__init__ with its arguments drawn from the choices above, and
\* the state before mainRunningCallBack reaches main.py:89.
Init ==
    /\ reference \in ReferenceChoices
    /\ data_paths \in DataPathsChoices
    /\ listdir \in ListdirChoices
    /\ csv_files = get_csv_files(data_paths, PricesDir, listdir)
    /\ missing \in SUBSET {data_paths[i][1] : i \in DOMAIN data_paths}
    /\ declaration \in DeclarationChoices
    /\ align_reference = NoReference /\ align_chunk = EmptyChunk
    /\ align_result = NoResult
    /\ mainpc = "create_table"
    /\ spawned = 0 /\ joined = 0 /\ sortIdx = 1 /\ writersStarted = 0
    /\ ppc = [p \in DOMAIN csv_files |-> "unstarted"]
    /\ pidx = [p \in DOMAIN csv_files |-> 0]
    /\ queue = <<>>
    /\ wpc = "unstarted" /\ cur = NoItem /\ retry_count = 0
    /\ attempts = 0 /\ backoff = 0
    /\ store = EmptyStore
    /\ printed = {}
    /\ pushed = <<>> /\ popped = <<>> /\ appended = {} /\ dropped = {}
    /\ created = {} /\ compacted = <<>>

\* ------------------------------------------------------ the coordinating process

\* db_writer.py:195  DBCreator(self.name).create_table()
CreateTable ==
    /\ mainpc = "create_table"
    /\ IF DBCreatorInit(declaration) # ""
       THEN /\ mainpc' = "raised"
            /\ printed' = printed \cup {<<DBCreatorInit(declaration), named>> :
                                            named \in DBCreatorNamed(declaration)}
            /\ UNCHANGED <<store, created>>
       ELSE LET name == declaration.table_name.text IN
            /\ store' = CreateIfAbsent(store, name)
            /\ created' = created \cup {name}
            /\ printed' = printed \cup {<<"created", name>>}
            /\ mainpc' = "start_writer"
    /\ UNCHANGED <<inputs, spawned, joined, sortIdx, writersStarted, prodVars, queue,
                   writerVars, pushed, popped, appended, dropped, compacted>>

\* db_writer.py:196-197
StartWriter ==
    /\ mainpc = "start_writer"
    /\ wpc' = "connect"
    /\ writersStarted' = writersStarted + 1
    /\ mainpc' = "producers"
    /\ UNCHANGED <<inputs, spawned, joined, sortIdx, prodVars, queue, cur, retry_count,
                   attempts, backoff, store, printed, history>>

\* db_writer.py:200-204, one turn of the loop
StartProducer ==
    /\ mainpc = "producers"
    /\ spawned < Len(csv_files)
    /\ spawned' = spawned + 1
    /\ ppc' = [ppc EXCEPT ![spawned + 1] = "running"]
    /\ UNCHANGED <<inputs, mainpc, joined, sortIdx, writersStarted, pidx, queue,
                   writerVars, store, printed, history>>

\* JoinProducer as it would be if join() did not wait for the process to end.
JoinProducer_NoWait ==
    /\ mainpc = "producers"
    /\ spawned = Len(csv_files)
    /\ joined < Len(csv_files)
    /\ joined' = joined + 1
    /\ UNCHANGED <<inputs, mainpc, spawned, sortIdx, writersStarted, prodVars, queue,
                   writerVars, store, printed, history>>

\* db_writer.py:206-207, one turn of the loop: p.join() returns when the
\* process has ended, however it ended.
JoinProducer ==
    /\ mainpc = "producers"
    /\ spawned = Len(csv_files)
    /\ joined < Len(csv_files)
    /\ Terminated(ppc[joined + 1])
    /\ joined' = joined + 1
    /\ UNCHANGED <<inputs, mainpc, spawned, sortIdx, writersStarted, prodVars, queue,
                   writerVars, store, printed, history>>

\* db_writer.py:209
PutSentinel ==
    /\ mainpc = "producers"
    /\ spawned = Len(csv_files)
    /\ joined = Len(csv_files)
    /\ ~Full(queue)
    /\ queue' = Append(queue, Sentinel)
    /\ pushed' = Append(pushed, Sentinel.id)
    /\ mainpc' = "join_writer"
    /\ UNCHANGED <<inputs, spawned, joined, sortIdx, writersStarted, prodVars,
                   writerVars, store, printed, popped, appended, dropped, created,
                   compacted>>

\* db_writer.py:210 without the wait for the writer process
JoinWriter_NoWait ==
    /\ mainpc = "join_writer"
    /\ mainpc' = "sort"
    /\ UNCHANGED <<inputs, spawned, joined, sortIdx, writersStarted, prodVars, queue,
                   writerVars, store, printed, history>>

\* db_writer.py:210, then run() returns to main.py:90
JoinWriter ==
    /\ mainpc = "join_writer"
    /\ Terminated(wpc)
    /\ mainpc' = "sort"
    /\ UNCHANGED <<inputs, spawned, joined, sortIdx, writersStarted, prodVars, queue,
                   writerVars, store, printed, history>>

\* main.py:91-95, one call of sort_table_on_time
SortTable ==
    /\ mainpc = "sort"
    /\ LET name == SortCalls[sortIdx]
       IN  /\ store' = sort_table_on_time(store, name)
           /\ compacted' = Append(compacted, name)
           /\ printed' = printed \cup {<<"modified", name>>}
    /\ sortIdx' = sortIdx + 1
    /\ mainpc' = IF sortIdx = Len(SortCalls) THEN "done" ELSE "sort"
    /\ UNCHANGED <<inputs, spawned, joined, writersStarted, prodVars, queue,
                   writerVars, pushed, popped, appended, dropped, created>>

Main == CreateTable \/ StartWriter \/ StartProducer \/ JoinProducer \/ PutSentinel
            \/ JoinWriter \/ SortTable

\* ------------------------------------------------------------- the producers

\* ProducerNotFound as it would be without the except clause: the exception
\* ends the process and nothing is reported.
ProducerNotFound_Uncaught(p) ==
    /\ ppc[p] = "running"
    /\ PathOf(p) \in missing
    /\ ppc' = [ppc EXCEPT ![p] = "crashed"]
    /\ UNCHANGED <<inputs, mainVars, pidx, queue, writerVars, store, printed, history>>

\* process_file, db_writer.py:85, 88-89: pd.read_csv raises FileNotFoundError,
\* which is caught and reported; the process ends normally.
ProducerNotFound(p) ==
    /\ ppc[p] = "running"
    /\ PathOf(p) \in missing
    /\ printed' = printed \cup {<<"not_found", TableOf(p)>>}
    /\ ppc' = [ppc EXCEPT ![p] = "done"]
    /\ UNCHANGED <<inputs, mainVars, pidx, queue, writerVars, store, history>>

\* ProducerChunk as it would be if the producer inserted its chunk into the
\* store itself instead of handing it to the writer.
ProducerChunk_WritesStore(p) ==
    /\ ppc[p] = "running"
    /\ PathOf(p) \notin missing
    /\ pidx[p] < NumChunks(PathOf(p))
    /\ LET k == pidx[p] + 1
           r == filter_dataframe(reference, RawChunk(PathOf(p), k))
       IN  IF r.raised # ""
           THEN /\ ppc' = [ppc EXCEPT ![p] = "crashed"]
                /\ UNCHANGED <<pidx, store, created>>
           ELSE /\ store' = to_sql(store, TableOf(p), prepare_chunk_for_db(r.chunk))
                /\ created' = created \cup {TableOf(p)}
                /\ pidx' = [pidx EXCEPT ![p] = k]
                /\ ppc' = [ppc EXCEPT ![p] =
                              IF k = NumChunks(PathOf(p)) THEN "done" ELSE "running"]
    /\ UNCHANGED <<inputs, mainVars, writerVars, queue, printed, pushed, popped,
                   appended, dropped, compacted>>

\* process_file, db_writer.py:85-87, one turn of the loop: read the next chunk,
\* filter it and put it on the queue.  An exception of filter_dataframe is not
\* caught (only FileNotFoundError is) and ends the process.  After the last
\* chunk the loop ends and the process with it.
ProducerChunk(p) ==
    /\ ppc[p] = "running"
    /\ PathOf(p) \notin missing
    /\ pidx[p] < NumChunks(PathOf(p))
    /\ LET k == pidx[p] + 1
           r == filter_dataframe(reference, RawChunk(PathOf(p), k))
       IN  IF r.raised # ""
           THEN /\ ppc' = [ppc EXCEPT ![p] = "crashed"]
                /\ UNCHANGED <<pidx, queue, pushed>>
           ELSE /\ ~Full(queue)
                /\ queue' = Append(queue, Item(r.chunk, TableOf(p), <<p, k>>))
                /\ pushed' = Append(pushed, <<p, k>>)
                /\ pidx' = [pidx EXCEPT ![p] = k]
                /\ ppc' = [ppc EXCEPT ![p] =
                              IF k = NumChunks(PathOf(p)) THEN "done" ELSE "running"]
    /\ UNCHANGED <<inputs, mainVars, writerVars, store, printed, popped, appended,
                   dropped, created, compacted>>

Producer(p) == ProducerNotFound(p) \/ ProducerChunk(p)

\* ---------------------------------------------------------------- the writer

\* write_to_db, db_writer.py:96
WriterConnect ==
    /\ wpc = "connect"
    /\ wpc' = "get"
    /\ UNCHANGED <<inputs, mainVars, prodVars, queue, cur, retry_count, attempts,
                   backoff, store, printed, history>>

\* write_to_db getting the newest item of the queue instead of the oldest.
WriterGet_Newest ==
    /\ wpc = "get"
    /\ queue # <<>>
    /\ LET item == queue[Len(queue)]
       IN  /\ queue' = SubSeq(queue, 1, Len(queue) - 1)
           /\ popped' = Append(popped, item.id)
           /\ IF item.is_none
              THEN /\ wpc' = "done"
                   /\ UNCHANGED <<cur, retry_count, attempts, backoff>>
              ELSE /\ wpc' = "try"
                   /\ cur' = item
                   /\ retry_count' = RetryCount
                   /\ attempts' = 0
                   /\ backoff' = 0
    /\ UNCHANGED <<inputs, mainVars, prodVars, store, printed, pushed, appended,
                   dropped, created, compacted>>

\* write_to_db, db_writer.py:98-101 (and 111 for the sentinel): queue.get()
\* blocks while the queue is empty.
WriterGet ==
    /\ wpc = "get"
    /\ queue # <<>>
    /\ queue' = Tail(queue)
    /\ popped' = Append(popped, Head(queue).id)
    /\ IF Head(queue).is_none
       THEN /\ wpc' = "done"
            /\ UNCHANGED <<cur, retry_count, attempts, backoff>>
       ELSE /\ wpc' = "try"
            /\ cur' = Head(queue)
            /\ retry_count' = RetryCount
            /\ attempts' = 0
            /\ backoff' = 0
    /\ UNCHANGED <<inputs, mainVars, prodVars, store, printed, pushed, appended,
                   dropped, created, compacted>>

\* write_to_db, db_writer.py:104-106, 110: the chunk is prepared and inserted.
\* Between two chunks retry_count, attempts and backoff are not read (line 101
\* sets retry_count anew): they are kept as 0 there.
WriterAppend ==
    /\ wpc = "try"
    /\ retry_count > 0
    /\ store' = to_sql(store, cur.table, prepare_chunk_for_db(cur.chunk))
    /\ created' = created \cup {cur.table}
    /\ appended' = appended \cup {cur.id}
    /\ cur' = NoItem
    /\ retry_count' = 0 /\ attempts' = 0 /\ backoff' = 0
    /\ wpc' = "get"
    /\ UNCHANGED <<inputs, mainVars, prodVars, queue, printed, pushed, popped,
                   dropped, compacted>>

\* WriterLocked as it would be with the loop test "retry_count >= 0": one
\* attempt more before the chunk is given up.
WriterLocked_OffByOne ==
    /\ wpc = "try"
    /\ retry_count >= 0
    /\ IF retry_count - 1 >= 0
       THEN /\ retry_count' = retry_count - 1
            /\ backoff' = backoff + SleepSeconds
            /\ attempts' = attempts + 1
            /\ cur' = [cur EXCEPT !.chunk = prepare_chunk_for_db(@)]
            /\ UNCHANGED <<wpc, dropped>>
       ELSE /\ cur' = NoItem
            /\ retry_count' = 0 /\ attempts' = 0 /\ backoff' = 0
            /\ dropped' = dropped \cup {cur.id}
            /\ wpc' = "get"
    /\ UNCHANGED <<inputs, mainVars, prodVars, queue, store, printed, pushed,
                   popped, appended, created, compacted>>

\* write_to_db, db_writer.py:104-105, 107-110: to_sql raises
\* sqlite3.OperationalError (the store is locked); the chunk stays prepared.
\* When retry_count reaches 0 the loop ends and the chunk is deleted.
WriterLocked ==
    /\ wpc = "try"
    /\ retry_count > 0
    /\ IF retry_count - 1 > 0
       THEN /\ retry_count' = retry_count - 1
            /\ backoff' = backoff + SleepSeconds
            /\ attempts' = attempts + 1
            /\ cur' = [cur EXCEPT !.chunk = prepare_chunk_for_db(@)]
            /\ UNCHANGED <<wpc, dropped>>
       ELSE /\ cur' = NoItem
            /\ retry_count' = 0 /\ attempts' = 0 /\ backoff' = 0
            /\ dropped' = dropped \cup {cur.id}
            /\ wpc' = "get"
    /\ UNCHANGED <<inputs, mainVars, prodVars, queue, store, printed, pushed,
                   popped, appended, created, compacted>>

\* write_to_db, db_writer.py:104-105: _prepare_chunk_for_db or to_sql raises
\* anything that is not sqlite3.OperationalError; nothing catches it and the
\* writer process ends.
WriterRaise ==
    /\ wpc = "try"
    /\ retry_count > 0
    /\ attempts' = attempts + 1
    /\ wpc' = "crashed"
    /\ UNCHANGED <<inputs, mainVars, prodVars, queue, cur, retry_count, backoff,
                   store, printed, history>>

Writer == WriterConnect \/ WriterGet \/ WriterAppend \/ WriterLocked \/ WriterRaise

\* ------------------------------------------------------------ specification

Next == Main \/ Writer \/ \E p \in Producers : Producer(p)

Spec == Init /\ [][Next]_vars

\* -------------------------------------------- filter_dataframe on its own

\* No pipeline: the coordinator, the writer and the store are idle, and the
\* arguments of one filter_dataframe call are drawn from the bounded sets.
AlignInit ==
    /\ align_reference \in AlignReferences
    /\ align_chunk \in AlignChunks
    /\ align_result = NoResult
    /\ reference = NoReference /\ data_paths = <<>> /\ listdir = <<>>
    /\ csv_files = <<>> /\ missing = {} /\ declaration = NoDeclaration
    /\ mainpc = "idle"
    /\ spawned = 0 /\ joined = 0 /\ sortIdx = 1 /\ writersStarted = 0
    /\ ppc = <<>> /\ pidx = <<>>
    /\ queue = <<>>
    /\ wpc = "unstarted" /\ cur = NoItem /\ retry_count = 0
    /\ attempts = 0 /\ backoff = 0
    /\ store = EmptyStore
    /\ printed = {}
    /\ pushed = <<>> /\ popped = <<>> /\ appended = {} /\ dropped = {}
    /\ created = {} /\ compacted = <<>>

\* db_writer.py:12-55, one call
FilterDataframe ==
    /\ align_result = NoResult
    /\ LET result == filter_dataframe(align_reference, align_chunk)
       IN  align_result' = [raised |-> result.raised, chunk |-> result.chunk,
                            called |-> TRUE]
    /\ UNCHANGED <<reference, csv_files, missing, declaration, data_paths, listdir,
                   align_reference, align_chunk, mainVars, prodVars, queue,
                   writerVars, store, printed, history>>

AlignNext == FilterDataframe

AlignSpec == AlignInit /\ [][AlignNext]_vars

\* ------------------------------------------------------------------ claims

SentinelCount == Cardinality({i \in DOMAIN pushed : pushed[i] = Sentinel.id})
SentinelPut == SentinelCount > 0
ChunkIds(log) == {log[i] : i \in DOMAIN log} \ {Sentinel.id}
InQueue == {queue[i].id : i \in DOMAIN queue}
RunReturned == mainpc \in {"sort", "done"}

\* C1: no chunk is lost: when the writer has terminated, every item a producer
\* pushed has been popped by the writer, and was appended or was dropped after
\* its retries, and no producer item is left in the queue.
C1_NoChunkLost ==
    Terminated(wpc) =>
        /\ \A id \in ChunkIds(pushed) :
              id \in ChunkIds(popped) /\ id \in appended \cup dropped
        /\ InQueue \subseteq {Sentinel.id}

\* C1, the part the code keeps: a writer that stopped on the sentinel has read
\* every producer item, and each was appended or dropped.
C1_NoChunkLostOnSentinel ==
    wpc = "done" =>
        /\ \A id \in ChunkIds(pushed) :
              id \in ChunkIds(popped) /\ id \in appended \cup dropped
        /\ queue = <<>>

PreparedChunk(id) ==
    prepare_chunk_for_db(filter_dataframe(reference, RawChunk(PathOf(id[1]), id[2])).chunk)

RowSet(rows) == {rows[i] : i \in DOMAIN rows}

\* The ids of the chunks the writer got for a table.
ReceivedFor(table) == {id \in ChunkIds(popped) : TableOf(id[1]) = table}

RECURSIVE SumRows(_)
SumRows(ids) ==
    IF ids = {} THEN 0
    ELSE LET id == CHOOSE x \in ids : TRUE
         IN  Len(PreparedChunk(id).rows) + SumRows(ids \ {id})

\* C3: the writer stops, normally, when it pops the Sentinel and only then;
\* after that it reads and appends nothing more; a writer that got chunks
\* c1..cn for a table and then the Sentinel leaves the table holding the union
\* of their rows.
C3_StopsOnSentinelOnly ==
    /\ Terminated(wpc) =>
          /\ wpc = "done"
          /\ popped # <<>> /\ popped[Len(popped)] = Sentinel.id
    /\ \A i \in DOMAIN popped : popped[i] = Sentinel.id => i = Len(popped)
    /\ (wpc = "done" /\ dropped = {} /\ compacted = <<>>) =>
          \A table \in {TableOf(p) : p \in Producers} :
             ReceivedFor(table) # {} =>
                /\ table \in DOMAIN store
                /\ RowSet(store[table]) =
                      UNION {RowSet(PreparedChunk(id).rows) : id \in ReceivedFor(table)}
                /\ Len(store[table]) = SumRows(ReceivedFor(table))

\* C3, the part the code keeps: everything but "only the Sentinel stops the
\* writer".
C3_SentinelStop ==
    /\ wpc = "done" => popped # <<>> /\ popped[Len(popped)] = Sentinel.id
    /\ \A i \in DOMAIN popped : popped[i] = Sentinel.id => i = Len(popped) /\ wpc = "done"
    /\ (wpc = "done" /\ dropped = {} /\ compacted = <<>>) =>
          \A table \in {TableOf(p) : p \in Producers} :
             ReceivedFor(table) # {} =>
                /\ table \in DOMAIN store
                /\ RowSet(store[table]) =
                      UNION {RowSet(PreparedChunk(id).rows) : id \in ReceivedFor(table)}
                /\ Len(store[table]) = SumRows(ReceivedFor(table))

LastPopped == popped[Len(popped)]

\* C4, in every state: a chunk is tried at most 5 times; while it is being
\* tried every try so far has failed and was followed by a sleep of 1; a
\* dropped chunk was popped, is not appended and is not back on the queue.
C4_AtMostFiveTries ==
    /\ attempts <= RetryCount
    /\ wpc = "try" =>
          /\ retry_count > 0
          /\ attempts = RetryCount - retry_count
          /\ backoff = SleepSeconds * attempts
    /\ \A id \in dropped :
          /\ id \notin appended
          /\ id \notin InQueue
          /\ id \in ChunkIds(popped)

\* C4, in every step: a chunk is dropped only by its 5th failed try; the step
\* appends nothing, puts nothing on the queue and leaves the writer at
\* queue.get().
C4_DropAfterFifthFailure ==
    dropped' # dropped =>
       /\ wpc = "try" /\ wpc' = "get"
       /\ attempts = RetryCount - 1
       /\ backoff = SleepSeconds * (RetryCount - 1)
       /\ dropped' = dropped \cup {cur.id}
       /\ store' = store /\ queue' = queue /\ appended' = appended

\* C4: a chunk whose append hits a locked store is tried at most 5 times, with
\* a sleep of 1 after each failed try; after the 5th failure it is dropped (not
\* appended, not put back on the queue) and the writer goes back to the queue.
C4_BoundedRetries == []C4_AtMostFiveTries /\ [][C4_DropAfterFifthFailure]_vars

\* A chunk was dropped and the writer then popped and appended the next one.
C4_Witness ==
    /\ dropped # {}
    /\ popped # <<>>
    /\ LastPopped \in appended
    /\ \E i \in DOMAIN popped : popped[i] \in dropped /\ i < Len(popped)
    /\ wpc = "get"

\* C5: no failure of one chunk ends the writer: it ends only on the Sentinel.
C5_FailedChunkNeverAborts ==
    /\ wpc # "crashed"
    /\ Terminated(wpc) => popped # <<>> /\ LastPopped = Sentinel.id

\* C6: every dropped chunk is reported: the drop reports emitted are as many as
\* the chunks dropped.
DropReports == {m \in printed : m[1] = "dropped"}
C6_DropsReported == Cardinality(DropReports) = Cardinality(dropped)

\* C7: the channel is bounded: it never holds more items than its capacity
\* (a producer that puts on a full channel blocks).  The capacity of the queue
\* is the maxsize it was built with.
C7_ChannelBounded == Len(queue) <= QueueMaxsize

\* C7: what the queue does instead: every chunk of the run and the Sentinel sit
\* in it at once, no put having blocked.
C7_HoldsWholeRun ==
    /\ Len(queue) >= MaxChunks + 4
    /\ Len(queue) = Len(pushed)
    /\ SentinelPut

PushedBy(p) == {id \in ChunkIds(pushed) : id[1] = p}

\* C8: a producer whose file does not exist reports it and pushes nothing; the
\* other producers are not stopped, the Sentinel is still enqueued, the writer
\* still terminates and the run completes (the run is never stuck before
\* run() returns, and once it has returned all of this has happened).
C8_MissingFileIsolated ==
    missing # {} =>
       /\ \A p \in Producers : PathOf(p) \in missing =>
             /\ PushedBy(p) = {}
             /\ ppc[p] # "crashed"
             /\ ppc[p] = "done" => <<"not_found", TableOf(p)>> \in printed
       /\ \A q \in Producers :
             (ppc[q] = "running" /\ PathOf(q) \notin missing) => ENABLED Producer(q)
       /\ mainpc \in {"start_writer", "producers", "join_writer"} => ENABLED Next
       /\ RunReturned =>
             /\ SentinelCount = 1
             /\ Terminated(wpc)
             /\ \A p \in Producers : Terminated(ppc[p])

\* One file was missing, another producer's chunks went through, the writer
\* stopped on the Sentinel and the run completed.
C8_Witness ==
    /\ mainpc = "done"
    /\ wpc = "done"
    /\ \E p \in Producers : PathOf(p) \in missing /\ ppc[p] = "done"
    /\ \E q \in Producers : PathOf(q) \notin missing /\ PushedBy(q) \subseteq appended
                               /\ Cardinality(PushedBy(q)) >= 2

\* C9, in every state: exactly one writer is started per run, and the
\* coordinating process touches the store only before it starts the writer and
\* after the writer has ended.
C9_OneWriter ==
    /\ writersStarted <= 1
    /\ writersStarted = 1 <=> wpc # "unstarted"
    /\ mainpc \in {"producers", "join_writer", "sort", "done"} => writersStarted = 1
    /\ mainpc = "create_table" => wpc = "unstarted"
    /\ RunReturned => Terminated(wpc)

\* C9, in every step: the store changes only in a step of the writer that is
\* inserting a chunk, or in a step of the coordinating process (table creation,
\* compaction); no step of a producer changes it.
C9_OnlyWriterAppends ==
    store' # store =>
       /\ prodVars' = prodVars
       /\ \/ wpc = "try" /\ wpc' = "get" /\ mainVars' = mainVars
          \/ mainpc \in {"create_table", "sort"} /\ writerVars' = writerVars

\* C9: single-writer invariant.
C9_SingleWriter == []C9_OneWriter /\ [][C9_OnlyWriterAppends]_vars

\* Two producers have pushed, and the writer has inserted chunks of both.
C9_Witness ==
    /\ wpc = "get"
    /\ \E p, q \in Producers :
          /\ p # q
          /\ PushedBy(p) \cap appended # {}
          /\ PushedBy(q) \cap appended # {}
    /\ \E p \in Producers : ppc[p] = "running"

\* C10: the run always finishes ingestion and then compacts every table that
\* was created, the default table of the directory files included.
C10_EveryCreatedTableCompacted ==
    mainpc = "done" =>
       /\ \A p \in Producers : Terminated(ppc[p])
       /\ Terminated(wpc)
       /\ \A table \in created : \E i \in DOMAIN compacted : compacted[i] = table

\* C11: sort_table_on_time is called for a table only once every producer and
\* the writer have terminated, no chunk is appended from the first call on, and
\* no table is passed to it twice; a finished run has called it once for each
\* of the five tables.
C11_SortAfterIngestion ==
    /\ compacted # <<>> =>
          /\ \A p \in Producers : Terminated(ppc[p])
          /\ Terminated(wpc)
          /\ cur = NoItem \/ wpc = "crashed"
    /\ \A i, j \in DOMAIN compacted : compacted[i] = compacted[j] => i = j
    /\ mainpc = "done" =>
          \A k \in DOMAIN SortCalls :
             Cardinality({i \in DOMAIN compacted : compacted[i] = SortCalls[k]}) = 1

C11_NoAppendOnceSorting ==
    /\ compacted' # compacted => appended' = appended /\ UNCHANGED writerVars
    /\ compacted # <<>> => appended' = appended

RECURSIVE RowsOf(_, _)
RowsOf(log, table) ==
    IF log = <<>> THEN <<>>
    ELSE LET id == Head(log)
             rows == IF id \in appended /\ TableOf(id[1]) = table
                     THEN PreparedChunk(id).rows ELSE <<>>
         IN  rows \o RowsOf(Tail(log), table)

IngestedRows(table) == RowsOf(popped, table)

\* Until the first sort_table_on_time call every table holds exactly these rows.
IngestedRowsAreTheTable ==
    compacted = <<>> => \A table \in DOMAIN store : store[table] = IngestedRows(table)

\* The positions of the rows that have the lowest rowid among the rows sharing
\* their time value.
Lowest(rows) == {i \in DOMAIN rows : \A j \in 1..(i - 1) : rows[j].time # rows[i].time}

\* after holds one row per distinct time value of before, the one with the
\* lowest rowid, in ascending time order.
IsCompactionOf(after, before) ==
    /\ RowSet(after) = {before[i] : i \in Lowest(before)}
    /\ Len(after) = Cardinality(Lowest(before))
    /\ \A i, j \in DOMAIN after : i < j => after[i].time < after[j].time

\* C12: after sort_table_on_time was called for a table that existed, the
\* table holds exactly one row per distinct time value it held before, the row
\* with the lowest rowid among those sharing the value, in ascending time order.
C12_CompactDeduplicatesAndSorts ==
    \A i \in DOMAIN compacted :
       LET table == compacted[i]
       IN  table \in created =>
              /\ table \in DOMAIN store
              /\ IsCompactionOf(store[table], IngestedRows(table))

\* The time a row of the chunk handed to filter_dataframe parses to.
AlignTime(i) == ToDatetime(align_chunk.rows[i].time)

\* Row i of that chunk as filter_dataframe returns it, when it does.
AlignKept(i) ==
    [align_chunk.rows[i] EXCEPT !.time = AlignTime(i)] \in RowSet(align_result.chunk.rows)

\* Reference time k's window holds the time stamp t, both ends included.
Covers(k, t) ==
    /\ align_reference.times[k] - Minutes <= t
    /\ t <= align_reference.times[k] + Minutes

\* C13: filter_dataframe keeps a row whose time parses if and only if some
\* reference time t has t - minutes <= time <= t + minutes, whether windows
\* overlap or not (so a row in the gap between two windows is dropped); it
\* returns no row it was not given and none twice.
C13_KeptIffInSomeWindow ==
    align_result.called =>
       /\ align_result.raised = ""
       /\ \A i \in DOMAIN align_chunk.rows :
             AlignTime(i) # NaT =>
                (AlignKept(i) <=> \E k \in DOMAIN align_reference.times :
                                     Covers(k, AlignTime(i)))
       /\ \A i \in DOMAIN align_chunk.rows : AlignTime(i) = NaT => ~AlignKept(i)
       /\ Len(align_result.chunk.rows) =
             Cardinality({i \in DOMAIN align_chunk.rows : AlignKept(i)})

\* Two different windows overlap, a row inside both is kept and another row,
\* outside every window, is dropped.
C13_Witness ==
    /\ align_result.called
    /\ \E k, m \in DOMAIN align_reference.times, i, j \in DOMAIN align_chunk.rows :
          /\ align_reference.times[k] < align_reference.times[m]
          /\ AlignTime(i) # NaT /\ AlignTime(j) # NaT
          /\ Covers(k, AlignTime(i)) /\ Covers(m, AlignTime(i))
          /\ AlignKept(i) /\ ~AlignKept(j)

\* Two windows with a gap between them, and a row in the gap is dropped.
C13_GapWitness ==
    /\ align_result.called
    /\ \E k, m \in DOMAIN align_reference.times, j \in DOMAIN align_chunk.rows :
          /\ align_reference.times[k] + Minutes < AlignTime(j)
          /\ AlignTime(j) < align_reference.times[m] - Minutes
          /\ ~AlignKept(j)

C14_LowerEndWitness ==
    /\ align_result.called
    /\ Len(align_reference.times) = 1
    /\ \E i, j \in DOMAIN align_chunk.rows :
          /\ AlignTime(i) = align_reference.times[1] - Minutes /\ AlignKept(i)
          /\ AlignTime(j) = align_reference.times[1] /\ AlignKept(j)

\* C15: in a run without a reference no producer fails, and a producer that
\* has finished a file that exists has pushed one item per chunk of the file,
\* each holding the rows that were read.
C15_NoReferenceNoFilter ==
    ~reference.given =>
       \A p \in Producers :
          /\ ppc[p] # "crashed"
          /\ (ppc[p] = "done" /\ PathOf(p) \notin missing) =>
                Cardinality(PushedBy(p)) = NumChunks(PathOf(p))
          /\ \A i \in DOMAIN queue :
                (~queue[i].is_none /\ queue[i].id[1] = p) =>
                   queue[i].chunk = RawChunk(PathOf(p), queue[i].id[2])

\* An identifier matches ^[A-Za-z_][A-Za-z0-9_]*$ ($ stands at the end of the
\* text or before a newline that ends it).
MatchesIdentifier(name) ==
    LET body == IF name.chars # <<>> /\ name.chars[Len(name.chars)] = "newline"
                THEN SubSeq(name.chars, 1, Len(name.chars) - 1)
                ELSE name.chars
    IN  /\ body # <<>>
        /\ body[1] \in {"alpha", "_"}
        /\ \A i \in 2..Len(body) : body[i] \in {"alpha", "digit", "_"}

\* The texts of the identifiers and types of the declaration that the rule
\* does not allow; type names are compared without regard to case.
Offending ==
    (IF MatchesIdentifier(declaration.table_name) THEN {}
     ELSE {declaration.table_name.text})
    \cup {declaration.columns[i][1].text : i \in
             {j \in DOMAIN declaration.columns :
                 ~MatchesIdentifier(declaration.columns[j][1])}}
    \cup {declaration.columns[i][2] : i \in
             {j \in DOMAIN declaration.columns :
                 Upper(declaration.columns[j][2]) \notin
                    {"TEXT", "TIMESTAMP", "REAL", "INTEGER"}}}

\* C16: a declaration with a table name or column name that does not match
\* the identifier pattern, or with a column type that is not allowed, is never
\* acted on: the run stops at the declaration with an error that names an
\* offending identifier or type, no table is ever created, nothing is executed
\* on the store and no process is started.
C16_InvalidDeclarationRejected ==
    (declaration.given /\ Offending # {}) =>
       /\ mainpc \in {"create_table", "raised"}
       /\ store = EmptyStore /\ created = {}
       /\ wpc = "unstarted" /\ spawned = 0
       /\ \A m \in printed : m[1] # "created"
       /\ mainpc = "raised" =>
             \E m \in printed : m[1] = "ValueError" /\ m[2] \in Offending

\* The declaration of table "1bad" has been rejected.
C16_Witness ==
    /\ declaration = BadTableDeclaration
    /\ mainpc = "raised"
    /\ <<"ValueError", "1bad">> \in printed
    /\ store = EmptyStore

\* The declarations with a bad column name and with a bad column type have
\* been rejected too.
C16_ColumnWitness ==
    /\ declaration \in {BadColumnDeclaration, BadTypeDeclaration}
    /\ mainpc = "raised"

\* C17: from the moment the writer or a producer is started, and until the
\* tables are sorted, the store holds every table that csv_files names as a
\* destination.
C17_TablesExistBeforeWriter ==
    ((wpc # "unstarted" \/ spawned > 0) /\ compacted = <<>>) =>
       \A p \in Producers : TableOf(p) \in DOMAIN store

\* The chunk numbers of producer p's items in a log of ids, in log order.
RECURSIVE ChunksOf(_, _)
ChunksOf(log, p) ==
    IF log = <<>> THEN <<>>
    ELSE (IF Head(log)[1] = p THEN <<Head(log)[2]>> ELSE <<>>) \o ChunksOf(Tail(log), p)

\* C18: for every file, the chunks the writer has got are the first chunks its
\* producer put, in the order it put them and in the order it read them,
\* whatever the items of other producers do in between.
C18_PerProducerFifo ==
    \A p \in Producers :
       LET put == ChunksOf(pushed, p)
           got == ChunksOf(popped, p)
       IN  /\ Len(got) <= Len(put)
           /\ got = SubSeq(put, 1, Len(got))
           /\ \A i \in DOMAIN got : got[i] = i

\* The writer got a chunk of another file between two chunks of one file.
C18_Witness ==
    \E i, j, k \in DOMAIN popped :
       /\ i < j /\ j < k
       /\ popped[i][1] = popped[k][1] /\ popped[i][1] \in Producers
       /\ popped[j][1] \in Producers /\ popped[j][1] # popped[i][1]

\* Chunks of two files are got in either order: here the first chunk of a
\* later-started producer comes before the first chunk of an earlier one.
C18_NoOrderAcrossFiles ==
    \E i, j \in DOMAIN popped :
       /\ i < j
       /\ popped[i][1] \in Producers /\ popped[j][1] \in Producers
       /\ popped[i][1] > popped[j][1]
       /\ popped[j][2] = 1

\* C19: every path the static mapping names is in csv_files with the table the
\* mapping gives it, also when the directory scan finds the file; the default
\* table goes only to scanned files the mapping does not name.
C19_MappedPathKeepsTable ==
    /\ \A i \in DOMAIN data_paths : \E j \in DOMAIN csv_files : csv_files[j] = data_paths[i]
    /\ \A j \in DOMAIN csv_files :
          (\E i \in DOMAIN data_paths : data_paths[i][1] = csv_files[j][1]) =>
             \E i \in DOMAIN data_paths : data_paths[i] = csv_files[j]

\* The time values of a sequence of rows.
TimesOf(rows) == {rows[i].time : i \in DOMAIN rows}

\* C20: whatever statement of sort_table_on_time fails, a table that existed
\* before the call still exists after it and still holds every time value it
\* held.
C20_FailedCompactionKeepsData ==
    \A i \in DOMAIN compacted :
       LET table == compacted[i]
       IN  table \in created =>
              /\ table \in DOMAIN store
              /\ TimesOf(IngestedRows(table)) \subseteq TimesOf(store[table])

\* A table with rows in it was handed to sort_table_on_time and is gone.
C20_DataLost ==
    \E i \in DOMAIN compacted :
       /\ IngestedRows(compacted[i]) # <<>>
       /\ compacted[i] \notin DOMAIN store

====
